---- MODULE Spec2Model ----
(***************************************************************************)
(* Model of training/dataset.py: the Dataset class that loads a catalogue  *)
(* of windows (mapping.json), caches the artifacts of every recording at   *)
(* construction, assembles one fixed-length window per __getitem__ call    *)
(* and stacks windows in collate_fn.                                       *)
(*                                                                         *)
(* A tensor is a record [dtype, cols, data]: data is the sequence of rows  *)
(* (dimension 0), every row a sequence of cols cells.                      *)
(***************************************************************************)
EXTENDS Integers, Sequences, FiniteSets, TLC

\* ------------------------------------------------------------------ bounds
\* num_frames, the window length (128 by default in the source).
NumFrames == 3
\* Feature bins per frame (feature.shape[1]).
NumBins == 2
\* Pitch classes per label frame (tensor.shape[1]).
NumPitch == 1
\* Longest catalogue of the windowing specifications.
MaxCat == 2
\* Longest catalogue of the construction specification.
MaxLoadCat == 5
\* Most negative feature onset_frame of a catalogue entry is -MaxNeg.
MaxNeg == 2
\* Largest batch handed to collate_fn.
MaxBatch == 2
\* Worker threads calling __getitem__ at the same time.
MaxThreads == 2

\* ------------------------------------------------------------ small helpers
Min(a, b) == IF a < b THEN a ELSE b
Max(a, b) == IF a > b THEN a ELSE b

\* ------------------------------------------------------------ the artifacts
LABELS == {"onset", "offset", "mpe", "velocity"}

\* Integer stand-in for torch.log(torch.tensor(config.feature.log_offset)).
zero_value == -18

\* The recordings on disk: one shorter than a window, one exactly a window long,
\* one longer.
Basenames == {"short", "exact", "long"}

\* Number of rows of features/<basename>.pt.
FeatureLen(basename) ==
    CASE basename = "short" -> NumFrames - 1
      [] basename = "exact" -> NumFrames
      [] basename = "long" -> NumFrames + 2

\* Number of rows of labels/<basename>.<label>.json.
LabelLen(basename) ==
    CASE basename = "short" -> NumFrames - 1
      [] basename = "exact" -> NumFrames
      [] basename = "long" -> NumFrames + 1

RecCode(basename) ==
    CASE basename = "short" -> 1
      [] basename = "exact" -> 2
      [] basename = "long" -> 3

LabelCode(label) ==
    CASE label = "onset" -> 1
      [] label = "offset" -> 2
      [] label = "mpe" -> 3
      [] label = "velocity" -> 4

\* torch.load(feature_path): row k (from 1) of the recording, every cell distinct.
LoadFeature(basename) ==
    [dtype |-> "float32", cols |-> NumBins,
     data |-> [k \in 1..FeatureLen(basename) |->
                 [b \in 1..NumBins |-> 1000 * RecCode(basename) + 10 * k + b]]]

\* torch.tensor(json.load(f)) of one label channel: integer rows, none zero.
LoadLabel(basename, label) ==
    [dtype |-> "int64", cols |-> NumPitch,
     data |-> [k \in 1..LabelLen(basename) |->
                 [p \in 1..NumPitch |->
                    1000 * RecCode(basename) + 100 * LabelCode(label) + 10 * k + p]]]

\* ------------------------------------------------------------ tensor algebra
Rows(t) == Len(t.data)

\* torch.zeros(n, cols, dtype=dtype).fill_(v)
Full(n, cols, dtype, v) ==
    [dtype |-> dtype, cols |-> cols, data |-> [i \in 1..n |-> [j \in 1..cols |-> v]]]

\* torch.zeros(n, cols, dtype=dtype)
Zeros(n, cols, dtype) == Full(n, cols, dtype, 0)

\* torch.cat([a, b], dim=0)
Cat(a, b) == [dtype |-> a.dtype, cols |-> a.cols, data |-> a.data \o b.data]

\* Python's slice bound: a negative bound counts from the end, then is clipped.
SliceBound(i, n) == IF i < 0 THEN Max(i + n, 0) ELSE Min(i, n)

\* A slice that takes its upper bound as inclusive.
PySliceInclusive(t, lo, hi) ==
    LET n == Rows(t)
        a == SliceBound(lo, n)
        b == SliceBound(hi + 1, n)
    IN  [dtype |-> t.dtype, cols |-> t.cols,
         data |-> IF a < b THEN SubSeq(t.data, a + 1, b) ELSE <<>>]

\* t[lo:hi] on dimension 0, with Python's slice semantics (0-based, half-open).
PySlice(t, lo, hi) ==
    LET n == Rows(t)
        a == SliceBound(lo, n)
        b == SliceBound(hi, n)
    IN  [dtype |-> t.dtype, cols |-> t.cols,
         data |-> IF a < b THEN SubSeq(t.data, a + 1, b) ELSE <<>>]

\* t.T of a 2-D tensor.
Transpose(t) ==
    [dtype |-> t.dtype, cols |-> Rows(t),
     data |-> [j \in 1..t.cols |-> [i \in 1..Rows(t) |-> t.data[i][j]]]]

\* t.float() / t.long() on integer-valued data: the values stay, the dtype changes.
Cast(t, dtype) == [t EXCEPT !.dtype = dtype]

\* ------------------------------------------------------------ the catalogue
FrameInfomation(on, off) == [onset_frame |-> on, offset_frame |-> off]

\* One DatasetItem.  Spans are well formed (offset_frame > onset_frame); the
\* feature span may start before frame 0 and may run past the array; the label
\* span is the feature span clipped to the non-negative range.
DatasetItem(basename, on, off) ==
    [basename |-> basename,
     feature |-> FrameInfomation(on, off),
     label |-> FrameInfomation(Max(on, 0), Max(off, 0))]

\* The catalogues of the windowing specifications: up to MaxCat windows of one
\* length n, each starting one frame after the previous one, the first at a
\* frame of -MaxNeg..1, every window over any of the recordings.
Catalogues ==
    UNION {
      {[k \in 1..c |-> DatasetItem(bs[k], on + k - 1, on + k - 1 + n)] :
          bs \in [1..c -> Basenames],
          on \in (0 - MaxNeg)..1,
          n \in 1..(NumFrames + 1)} :
      c \in 1..MaxCat}

\* The catalogues of the batching specification: windows of num_frames or
\* num_frames + 1 frames, the first at frame 0.
CollateCatalogues ==
    {c \in Catalogues :
        /\ c[1].feature.onset_frame = 0
        /\ c[1].feature.offset_frame >= NumFrames}

\* The catalogues of the threaded specification: the first window starts before
\* frame 0.
ConcCatalogues == {c \in Catalogues : c[1].feature.onset_frame < 0}

\* The catalogues of the construction specification: up to MaxLoadCat windows
\* [0, num_frames) over any of the recordings, in any order.
LoadCatalogues ==
    UNION {
      {[k \in 1..c |-> DatasetItem(bs[k], 0, NumFrames)] : bs \in [1..c -> Basenames]} :
      c \in 1..MaxLoadCat}

\* ------------------------------------------------------------------ state
VARIABLES
    datamapping,  \* self.datamapping: the catalogue, a list of DatasetItem
    loaded,       \* the catalogue as parsed from mapping.json (history)
    features,     \* self.features: basename -> cached feature tensor
    labels,       \* self.labels: basename -> label -> cached label tensor
    loads,        \* basename -> number of torch.load calls __init__ made for it
    ctor,         \* __init__'s loop: position of the next mapping to visit
    call,         \* the last __getitem__ call: its idx and the entry it read
    result,       \* what the last __getitem__ call returned or raised
    batch,        \* the list of samples a caller has gathered for collate_fn
    collated,     \* what collate_fn(batch) returned or raised
    th            \* worker thread -> its __getitem__ call: position, locals, return

vars ==
    <<datamapping, loaded, features, labels, loads, ctor, call, result, batch,
      collated, th>>

\* ------------------------------------------------------------ Dataset.__init__
\* A membership test that never finds the recording.
NeverCached(basename, cache) == FALSE

\* `basename in self.features`
Cached(basename, cache) == basename \in DOMAIN cache

\* The label dictionary __init__ builds for one recording.
LoadLabels(basename) == [label \in LABELS |-> LoadLabel(basename, label)]

Put(cache, key, value) ==
    [k \in DOMAIN cache \cup {key} |-> IF k = key THEN value ELSE cache[k]]

\* __init__ has visited every mapping: the dataset is constructed.
Ready == ctor > Len(datamapping)

\* One pass of the loop for a recording that is not cached yet.
CtorLoad ==
    /\ ~Ready
    /\ LET basename == datamapping[ctor].basename IN
         /\ ~Cached(basename, features)
         /\ features' = Put(features, basename, LoadFeature(basename))
         /\ labels' = Put(labels, basename, LoadLabels(basename))
         /\ loads' = [loads EXCEPT ![basename] = @ + 1]
    /\ ctor' = ctor + 1
    /\ UNCHANGED <<datamapping, loaded, call, result, batch, collated, th>>

\* One pass of the loop for a recording already cached: `continue`.
CtorSkip ==
    /\ ~Ready
    /\ Cached(datamapping[ctor].basename, features)
    /\ ctor' = ctor + 1
    /\ UNCHANGED <<datamapping, loaded, features, labels, loads, call, result, batch,
                   collated, th>>

\* ---------------------------------------------------------- Dataset.__len__
Length == Len(datamapping)

\* --------------------------------------------------------- Dataset.__getitem__
\* self.datamapping[idx] succeeds: Python lists accept -len <= idx < len.
ListIndexOk(idx, n) == 0 - n <= idx /\ idx < n

\* The (1-based) position self.datamapping[idx] reads.
ListPos(idx, n) == IF idx < 0 THEN idx + n + 1 ELSE idx + 1

\* Lines 87-90: prepend -onset_frame rows filled with zero_value.
PrependSilence(feature, onset_frame) ==
    Cat(Full(0 - onset_frame, feature.cols, feature.dtype, zero_value), feature)

\* Lines 91-94: onset_frame is set to 0 first, offset_frame is then computed from
\* the onset_frame just stored.
CorrectedSpan(span) ==
    LET onset_frame == 0
    IN  FrameInfomation(onset_frame, span.offset_frame - onset_frame)

\* A right-padding that leaves the new rows at torch.zeros' value.
PadFeatureUnfilled(feature) ==
    IF Rows(feature) < NumFrames
    THEN Cat(feature, Zeros(NumFrames - Rows(feature), feature.cols, feature.dtype))
    ELSE feature

\* Lines 97-103: right-pad a short feature slice with zero_value rows.
PadFeature(feature) ==
    IF Rows(feature) < NumFrames
    THEN Cat(feature,
             Full(NumFrames - Rows(feature), feature.cols, feature.dtype, zero_value))
    ELSE feature

\* Lines 108-115: right-pad a short label tensor with zero rows.
PadLabel(tensor) ==
    IF Rows(tensor) < NumFrames
    THEN Cat(tensor, Zeros(NumFrames - Rows(tensor), tensor.cols, tensor.dtype))
    ELSE tensor

\* Lines 72-79: every channel is read whole from labels/<basename>.<label>.json.
ReadLabels(mapping) == [label \in LABELS |-> LoadLabel(mapping.basename, label)]

\* Lines 105-122: transpose, pad the labels, cast, return the 5-tuple.
Sample(feature, read) ==
    LET padded == [label \in LABELS |-> PadLabel(read[label])]
    IN  [spec |-> Transpose(feature),
         onset |-> padded["onset"],
         offset |-> padded["offset"],
         mpe |-> Cast(padded["mpe"], "float32"),
         velocity |-> Cast(padded["velocity"], "int64")]

\* The whole body of __getitem__ for the entry `mapping`: the span it leaves in
\* the entry, the rows of the slice of line 96 and the sample it returns.
Window(mapping) ==
    LET read == ReadLabels(mapping)
        feature0 == LoadFeature(mapping.basename)
        negative == mapping.feature.onset_frame < 0
        feature1 == IF negative
                    THEN PrependSilence(feature0, mapping.feature.onset_frame)
                    ELSE feature0
        span == IF negative THEN CorrectedSpan(mapping.feature) ELSE mapping.feature
        feature2 == PySlice(feature1, span.onset_frame, span.offset_frame)
    IN  [span |-> span,
         sliced |-> Rows(feature2),
         sample |-> Sample(PadFeature(feature2), read)]

\* The last __getitem__ call returned a sample.
Returned == Ready /\ result.status = "ok"

\* The indices callers pass, in range or not.
Indices == (0 - MaxCat - 1)..MaxCat

\* __getitem__(idx) with an index the list accepts.
GetItem(idx) ==
    /\ Ready
    /\ ListIndexOk(idx, Length)
    /\ LET pos == ListPos(idx, Length)
           mapping == datamapping[pos]
           w == Window(mapping)
       IN  /\ datamapping' = [datamapping EXCEPT ![pos].feature = w.span]
           /\ call' = [idx |-> idx, pos |-> pos, mapping |-> mapping]
           /\ result' = [status |-> "ok", sliced |-> w.sliced, sample |-> w.sample]
    /\ UNCHANGED <<loaded, features, labels, loads, ctor, batch, collated, th>>

\* __getitem__(idx) with an index the list rejects: IndexError, nothing changes.
GetItemIndexError(idx) ==
    /\ Ready
    /\ ~ListIndexOk(idx, Length)
    /\ call' = [idx |-> idx, pos |-> 0, mapping |-> DatasetItem("short", 0, 1)]
    /\ result' = [status |-> "IndexError"]
    /\ UNCHANGED <<datamapping, loaded, features, labels, loads, ctor, batch, collated, th>>

\* ------------------------------------- Dataset.__getitem__, one thread's steps
\* Several threads share self.datamapping; a thread may be preempted between any
\* two reads or writes of an entry's fields.
Threads == 1..MaxThreads

NoTensor == [dtype |-> "float32", cols |-> NumBins, data |-> <<>>]

IdleThread ==
    [pc |-> "idle", idx |-> 0, pos |-> 0, feature |-> NoTensor, tmp |-> 0,
     ret |-> [status |-> "none"]]

\* Lines 70-83: self.datamapping[idx], then the artifacts are read from disk.
ThCall(t, idx) ==
    /\ Ready
    /\ th[t].pc = "idle"
    /\ ListIndexOk(idx, Length)
    /\ th' = [th EXCEPT ![t] =
                [@ EXCEPT !.pc = "l86", !.idx = idx, !.pos = ListPos(idx, Length),
                          !.feature = LoadFeature(datamapping[ListPos(idx, Length)].basename)]]
    /\ UNCHANGED <<datamapping, loaded, features, labels, loads, ctor, call, result,
                   batch, collated>>

\* Line 70 raises IndexError.
ThCallIndexError(t, idx) ==
    /\ Ready
    /\ th[t].pc = "idle"
    /\ ~ListIndexOk(idx, Length)
    /\ th' = [th EXCEPT ![t] =
                [@ EXCEPT !.pc = "done", !.idx = idx, !.ret = [status |-> "IndexError"]]]
    /\ UNCHANGED <<datamapping, loaded, features, labels, loads, ctor, call, result,
                   batch, collated>>

\* Line 86: `if mapping.feature.onset_frame < 0`.
ThTestOnset(t) ==
    /\ th[t].pc = "l86"
    /\ th' = [th EXCEPT ![t].pc =
                IF datamapping[th[t].pos].feature.onset_frame < 0 THEN "l87" ELSE "l96"]
    /\ UNCHANGED <<datamapping, loaded, features, labels, loads, ctor, call, result,
                   batch, collated>>

\* Lines 87-90: onset_frame is read again for the number of rows to prepend.
ThPrepend(t) ==
    /\ th[t].pc = "l87"
    /\ th' = [th EXCEPT ![t] =
                [@ EXCEPT !.pc = "l91",
                          !.feature = PrependSilence(
                              @, datamapping[th[t].pos].feature.onset_frame)]]
    /\ UNCHANGED <<datamapping, loaded, features, labels, loads, ctor, call, result,
                   batch, collated>>

\* Line 91: mapping.feature.onset_frame = 0.
ThStoreOnset(t) ==
    /\ th[t].pc = "l91"
    /\ datamapping' = [datamapping EXCEPT ![th[t].pos].feature.onset_frame = 0]
    /\ th' = [th EXCEPT ![t].pc = "l93a"]
    /\ UNCHANGED <<loaded, features, labels, loads, ctor, call, result, batch, collated>>

\* Line 93, left operand: mapping.feature.offset_frame is read.
ThReadOffset(t) ==
    /\ th[t].pc = "l93a"
    /\ th' = [th EXCEPT ![t] =
                [@ EXCEPT !.pc = "l93b",
                          !.tmp = datamapping[th[t].pos].feature.offset_frame]]
    /\ UNCHANGED <<datamapping, loaded, features, labels, loads, ctor, call, result,
                   batch, collated>>

\* Line 93, right operand: mapping.feature.onset_frame is read and subtracted.
ThSubtractOnset(t) ==
    /\ th[t].pc = "l93b"
    /\ th' = [th EXCEPT ![t] =
                [@ EXCEPT !.pc = "l92",
                          !.tmp = @ - datamapping[th[t].pos].feature.onset_frame]]
    /\ UNCHANGED <<datamapping, loaded, features, labels, loads, ctor, call, result,
                   batch, collated>>

\* Line 92: the difference is stored in mapping.feature.offset_frame.
ThStoreOffset(t) ==
    /\ th[t].pc = "l92"
    /\ datamapping' = [datamapping EXCEPT ![th[t].pos].feature.offset_frame = th[t].tmp]
    /\ th' = [th EXCEPT ![t].pc = "l96"]
    /\ UNCHANGED <<loaded, features, labels, loads, ctor, call, result, batch, collated>>

\* Line 96, lower bound: mapping.feature.onset_frame is read.
ThReadSliceStart(t) ==
    /\ th[t].pc = "l96"
    /\ th' = [th EXCEPT ![t] =
                [@ EXCEPT !.pc = "l96b",
                          !.tmp = datamapping[th[t].pos].feature.onset_frame]]
    /\ UNCHANGED <<datamapping, loaded, features, labels, loads, ctor, call, result,
                   batch, collated>>

\* Line 96, upper bound and slice; lines 97-122 touch the thread's locals only.
ThSliceAndReturn(t) ==
    /\ th[t].pc = "l96b"
    /\ LET mapping == datamapping[th[t].pos]
           feature == PySlice(th[t].feature, th[t].tmp, mapping.feature.offset_frame)
       IN  th' = [th EXCEPT ![t] =
                    [@ EXCEPT !.pc = "done",
                              !.feature = PadFeature(feature),
                              !.ret = [status |-> "ok",
                                       sample |-> Sample(PadFeature(feature),
                                                         ReadLabels(mapping))]]]
    /\ UNCHANGED <<datamapping, loaded, features, labels, loads, ctor, call, result,
                   batch, collated>>

\* --------------------------------------------------------- Dataset.collate_fn
FIELDS == {"spec", "onset", "offset", "mpe", "velocity"}

Shape(t) == <<Rows(t), t.cols>>

\* torch.stack accepts the tensors: they all have the shape of the first.
SameShapes(tensors) == \A k \in 1..Len(tensors) : Shape(tensors[k]) = Shape(tensors[1])

\* A stack that cuts every tensor to the smallest rows and columns of the list.
StackTruncating(tensors) ==
    LET rows == CHOOSE r \in {Rows(tensors[k]) : k \in 1..Len(tensors)} :
                  \A k \in 1..Len(tensors) : r <= Rows(tensors[k])
        cols == CHOOSE c \in {tensors[k].cols : k \in 1..Len(tensors)} :
                  \A k \in 1..Len(tensors) : c <= tensors[k].cols
    IN  [status |-> "ok",
         dtype |-> tensors[1].dtype,
         shape |-> <<Len(tensors), rows, cols>>,
         data |-> [k \in 1..Len(tensors) |->
                     [i \in 1..rows |-> SubSeq(tensors[k].data[i], 1, cols)]]]

\* torch.stack(tensors): a new leading dimension, or RuntimeError when two of the
\* tensors differ in shape.
Stack(tensors) ==
    IF SameShapes(tensors)
    THEN [status |-> "ok",
          dtype |-> tensors[1].dtype,
          shape |-> <<Len(tensors)>> \o Shape(tensors[1]),
          data |-> [k \in 1..Len(tensors) |-> tensors[k].data]]
    ELSE [status |-> "RuntimeError"]

\* zip(*batch): the five per-position tuples.
Unzip(samples) == [f \in FIELDS |-> [k \in 1..Len(samples) |-> samples[k][f]]]

\* collate_fn(batch) for a batch of at least one sample: the five stacks, or the
\* error of the first stack that fails.
collate_fn(samples) ==
    LET stacked == [f \in FIELDS |-> Stack(Unzip(samples)[f])]
    IN  IF \A f \in FIELDS : stacked[f].status = "ok"
        THEN [status |-> "ok", out |-> stacked]
        ELSE [status |-> "RuntimeError"]

\* The caller puts the sample just returned into the batch it is gathering; a
\* batch that was collated is replaced by a new one.
Collect ==
    /\ Returned
    /\ \/ /\ collated.status = "none"
          /\ Len(batch) < MaxBatch
          /\ batch' = Append(batch, result.sample)
       \/ /\ collated.status # "none"
          /\ batch' = <<result.sample>>
    /\ collated' = [status |-> "none"]
    /\ UNCHANGED <<datamapping, loaded, features, labels, loads, ctor, call, result, th>>

\* collate_fn(batch) on the gathered batch.
Collate ==
    /\ Ready
    /\ Len(batch) >= 1
    /\ collated.status = "none"
    /\ collated' = collate_fn(batch)
    /\ UNCHANGED <<datamapping, loaded, features, labels, loads, ctor, call, result,
                   batch, th>>

\* ------------------------------------------------------------ specifications
InitWith(catalogue) ==
    /\ datamapping = catalogue
    /\ loaded = catalogue
    /\ features = <<>>
    /\ labels = <<>>
    /\ loads = [b \in Basenames |-> 0]
    /\ ctor = 1
    /\ call = [idx |-> 0, pos |-> 0, mapping |-> DatasetItem("short", 0, 1)]
    /\ result = [status |-> "none"]
    /\ batch = <<>>
    /\ collated = [status |-> "none"]
    /\ th = [t \in Threads |-> IdleThread]

Init == \E catalogue \in Catalogues : InitWith(catalogue)

Next ==
    \/ CtorLoad
    \/ CtorSkip
    \/ \E idx \in Indices : GetItem(idx)
    \/ \E idx \in Indices : GetItemIndexError(idx)

Spec == Init /\ [][Next]_vars

\* Construction alone, over the longer catalogues.
InitLoad == \E catalogue \in LoadCatalogues : InitWith(catalogue)

NextLoad ==
    \/ CtorLoad
    \/ CtorSkip

SpecLoad == InitLoad /\ [][NextLoad]_vars

\* Windowing and batching.
InitCollate == \E catalogue \in CollateCatalogues : InitWith(catalogue)

NextCollate ==
    \/ CtorLoad
    \/ CtorSkip
    \/ \E idx \in Indices : GetItem(idx)
    \/ \E idx \in Indices : GetItemIndexError(idx)
    \/ Collect
    \/ Collate

SpecCollate == InitCollate /\ [][NextCollate]_vars

\* Construction, then one __getitem__ call per worker thread, interleaved.
InitConc == \E catalogue \in ConcCatalogues : InitWith(catalogue)

NextConc ==
    \/ CtorLoad
    \/ CtorSkip
    \/ \E t \in Threads, idx \in Indices : ThCall(t, idx)
    \/ \E t \in Threads, idx \in Indices : ThCallIndexError(t, idx)
    \/ \E t \in Threads : ThTestOnset(t)
    \/ \E t \in Threads : ThPrepend(t)
    \/ \E t \in Threads : ThStoreOnset(t)
    \/ \E t \in Threads : ThReadOffset(t)
    \/ \E t \in Threads : ThSubtractOnset(t)
    \/ \E t \in Threads : ThStoreOffset(t)
    \/ \E t \in Threads : ThReadSliceStart(t)
    \/ \E t \in Threads : ThSliceAndReturn(t)

SpecConc == InitConc /\ [][NextConc]_vars

\* ------------------------------------------------------------------ claims
\* The feature span, the feature array and the recording of the entry the last
\* call read, as they were when the call started.
CallOnset == call.mapping.feature.onset_frame
CallOffset == call.mapping.feature.offset_frame
CallFeature == LoadFeature(call.mapping.basename)
CallLabelLen == LabelLen(call.mapping.basename)

\* n rows of the silence scalar, as wide as a feature row.
SilenceRows(n) == [i \in 1..n |-> [b \in 1..NumBins |-> zero_value]]

\* The returned feature tensor read along its time axis: one row per frame.
ReturnedFrames == Transpose(result.sample.spec).data

\* C1: for every valid index the four label tensors get_sample returns have
\* exactly num_frames rows, whatever the length of the recording's label arrays.
C1_LabelRowsAreNumFrames ==
    Returned => \A label \in LABELS : Rows(result.sample[label]) = NumFrames

\* C2: for an entry with feature span (s, e), s < 0, e - s <= num_frames and at
\* least e source rows, the returned feature holds -s silence rows, the source
\* rows [0, e), then num_frames - (e - s) silence rows.
C2_NegativeOnsetKeepsSpanLength ==
    (/\ Returned
     /\ CallOnset < 0
     /\ CallOffset >= 0
     /\ CallOffset - CallOnset <= NumFrames
     /\ Rows(CallFeature) >= CallOffset)
    => ReturnedFrames =
         SilenceRows(0 - CallOnset)
           \o SubSeq(CallFeature.data, 1, CallOffset)
           \o SilenceRows(NumFrames - (CallOffset - CallOnset))

\* C3: get_sample leaves every catalogue entry's spans as they were loaded, and
\* every call get_sample(i) returns what the first call get_sample(i) returned:
\* the sample assembled from entry i as it was loaded.
C3_CatalogueUntouchedAndIdempotent ==
    /\ Ready => datamapping = loaded
    /\ Returned => result.sample = Window(loaded[call.pos]).sample

\* The feature span of the entry the last call read, as mapping.json gave it.
LoadedOnset == loaded[call.pos].feature.onset_frame
LoadedOffset == loaded[call.pos].feature.offset_frame

\* C4: for a catalogue entry that mapping.json gives the feature span (s, e),
\* s >= 0 and e - s <= num_frames, the returned feature has exactly num_frames
\* columns on its time axis; the first min(e, source_length) - s of them are the
\* source rows s .. min(e, source_length) - 1 in order, the others are padding.
C4_FeatureRoundTrip ==
    (Returned /\ LoadedOnset >= 0 /\ LoadedOffset - LoadedOnset <= NumFrames)
    => LET spec == result.sample.spec
           real == Min(LoadedOffset, Rows(CallFeature)) - LoadedOnset
       IN  /\ spec.cols = NumFrames
           /\ Rows(spec) = NumBins
           /\ \A b \in 1..NumBins : Len(spec.data[b]) = NumFrames
           /\ \A k \in 1..NumFrames : \A b \in 1..NumBins :
                spec.data[b][k] = IF k <= real
                                  THEN CallFeature.data[LoadedOnset + k][b]
                                  ELSE zero_value

\* C4's case: a window inside the array's range that is clipped at the array's
\* end, so that real frames are followed by padding.
C4_Witness ==
    /\ Returned
    /\ LoadedOnset >= 1
    /\ LoadedOffset - LoadedOnset <= NumFrames
    /\ LoadedOffset > Rows(CallFeature)
    /\ Rows(CallFeature) > LoadedOnset

\* The rows of the returned feature that come from the rows prepended for a
\* negative start: the slice of line 96 starts at the first prepended row.
PrependedKept == IF CallOnset < 0 THEN Min(0 - CallOnset, result.sliced) ELSE 0

\* C5: every feature cell added by padding (prepended for a negative start or
\* appended up to num_frames) holds the silence scalar, and every label cell
\* added by padding holds 0, in all four channels.
C5_PaddingValuesNeverMix ==
    Returned
    => /\ \A k \in 1..result.sample.spec.cols :
            (k <= PrependedKept \/ k > result.sliced)
            => \A b \in 1..NumBins :
                 /\ result.sample.spec.data[b][k] = zero_value
                 /\ result.sample.spec.data[b][k] # 0
       /\ \A label \in LABELS :
            \A k \in 1..Rows(result.sample[label]) :
               k > CallLabelLen
               => \A p \in 1..NumPitch :
                    /\ result.sample[label].data[k][p] = 0
                    /\ result.sample[label].data[k][p] # zero_value

\* C5's case: a call that prepended rows, appended rows and padded the labels.
C5_Witness ==
    /\ Returned
    /\ PrependedKept >= 1
    /\ result.sliced < NumFrames
    /\ CallLabelLen < NumFrames
    /\ Rows(result.sample["onset"]) = NumFrames

\* C7: get_sample(index) fails with IndexError for every index outside
\* 0 <= index < length(), negative indices included.
C7_OutOfRangeIsIndexError ==
    (Ready /\ result.status # "none" /\ ~(0 <= call.idx /\ call.idx < Length))
    => result.status = "IndexError"

\* C10: every returned label tensor is the source channel's rows
\* [label_span.start_frame, label_span.end_frame), clipped to the array's end,
\* followed only by zero rows up to num_frames.
C10_LabelsSlicedByLabelSpan ==
    Returned
    => \A label \in LABELS :
         result.sample[label].data =
           PadLabel(PySlice(LoadLabel(call.mapping.basename, label),
                            call.mapping.label.onset_frame,
                            call.mapping.label.offset_frame)).data

\* The recordings the catalogue names.
Distinct == {datamapping[k].basename : k \in 1..Len(datamapping)}

\* C6: construction loads the artifacts of each distinct recording_id exactly
\* once, however many entries reference it and in whatever order, and afterwards
\* the cache holds exactly the set of distinct recording_ids.
C6_EachRecordingLoadedOnce ==
    /\ \A b \in Basenames : loads[b] <= 1
    /\ Ready
       => /\ \A b \in Basenames : loads[b] = IF b \in Distinct THEN 1 ELSE 0
          /\ DOMAIN features = Distinct
          /\ DOMAIN labels = Distinct
          /\ \A b \in Distinct :
               /\ features[b] = LoadFeature(b)
               /\ \A label \in LABELS : labels[b][label] = LoadLabel(b, label)

\* C6's case: a constructed dataset of 5 entries over 2 distinct recordings.
C6_Witness ==
    /\ Ready
    /\ Len(datamapping) = 5
    /\ Cardinality(Distinct) = 2
    /\ \A b \in Distinct : loads[b] = 1
    /\ \E k \in 2..5 : datamapping[k].basename = datamapping[1].basename

\* The samples of the batch agree on the shape of every tensor position.
UniformBatch ==
    \A f \in FIELDS : \A k \in 1..Len(batch) : Shape(batch[k][f]) = Shape(batch[1][f])

\* C8: collate on N uniformly shaped samples returns five tensors of leading
\* dimension N whose other dimensions are the per-sample shapes and whose k-th
\* slice is the k-th sample's tensor; collate on a batch with a sample longer on
\* the time axis fails with a shape-mismatch error and returns no batch.
C8_CollateStacksOrFails ==
    collated.status # "none"
    => IF UniformBatch
       THEN /\ collated.status = "ok"
            /\ \A f \in FIELDS :
                 /\ collated.out[f].shape = <<Len(batch)>> \o Shape(batch[1][f])
                 /\ collated.out[f].dtype = batch[1][f].dtype
                 /\ Len(collated.out[f].data) = Len(batch)
                 /\ \A k \in 1..Len(batch) : collated.out[f].data[k] = batch[k][f].data
       ELSE /\ collated.status = "RuntimeError"
            /\ DOMAIN collated = {"status"}

\* C8's case: collate_fn failed on a batch of two samples, one of which has an
\* over-length feature slice and the other exactly num_frames columns.
C8_Witness ==
    /\ collated.status = "RuntimeError"
    /\ Len(batch) = 2
    /\ \E k \in 1..2 : batch[k].spec.cols > NumFrames
    /\ \E k \in 1..2 : batch[k].spec.cols = NumFrames

\* C9: concurrent get_sample calls write no shared state, and under every
\* interleaving each call returns what it returns when run alone on the freshly
\* constructed dataset.
C9_ConcurrentCallsAreIsolated ==
    /\ Ready => datamapping = loaded
    /\ \A t \in Threads :
         (th[t].pc = "done" /\ th[t].ret.status = "ok")
         => th[t].ret.sample = Window(loaded[th[t].pos]).sample

====
